---- MODULE Spec2Model ----
(***************************************************************************)
(* The bolt execution engines of streamparse/bolt.py:                      *)
(*   Bolt.run          - the single-dispatch loop (main thread only)       *)
(*   BatchingBolt      - main thread (run) appends tuples to _batches,     *)
(*                       the _batcher thread (_batch_entry) flushes them   *)
(* One state machine covers both classes; cls says which one was built.    *)
(***************************************************************************)
EXTENDS Integers, Sequences, FiniteSets, TLC

\* ---------------------------------------------------------------- bounds
\* What one run takes from its surroundings: the tuples read_tuple()
\* delivers plus the emit / emit_many calls the user code makes.
MaxEvents == 3

\* ------------------------------------------------------------ value sets
None == "None"
\* tup.values[0] of an inbound tuple
Values == {"a", "b"}
\* what group_key may return (any hashable; None is the default)
Keys == {None, "a", "b"}
\* the group_key methods considered: the default (constant None) and
\* the override that returns tup.values[0]
GroupKeyFns == { [v \in Values |-> None], [v \in Values |-> v] }

\* streamparse.ipc.Tuple as the engine uses it: its id and its values
Tuple(i, v) == [id |-> i, values |-> v]

\* Python values handed to emit/emit_many, tagged with their type so that
\* isinstance() is a test on the tag.
PyList(s) == [type |-> "list", val |-> s]
PyStr(s) == [type |-> "str", val |-> s]
\* an element of an anchors list: a Tuple instance or a raw id
AnchorTuple(t) == [type |-> "Tuple", tup |-> t]
AnchorId(i) == [type |-> "id", id |-> i]

VARIABLES
    cls,            \* "Bolt" or "BatchingBolt": the class that was constructed
    AUTO_ANCHOR,    \* class attributes, fixed for the run
    AUTO_ACK,
    AUTO_FAIL,
    group_key,      \* the group_key method, as a function of tup.values[0]
    pc,             \* position of the main thread (run)
    bpc,            \* position of the _batcher thread (_batch_entry)
    _current_tups,  \* self._current_tups
    alias,          \* the key of _batches whose list object _current_tups is, or None
    _batches,       \* self._batches: function from the keys present to lists
    _batch_lock,    \* holder of self._batch_lock: "free" or "batcher" (run holds
                    \* it only within its append step)
    exc_info,       \* self.exc_info
    sigint,         \* a SIGINT sent by os.kill and not yet handled
    e,              \* the exception being handled: [main |-> .., batcher |-> ..]
    tup,            \* run's local tup (BatchingBolt), None when not set
    todo,           \* keys iteritems(self._batches) has not yet yielded
    fail_i,         \* index of the fail loop of _batch_entry's handler
    out,            \* messages written to the transport (stdout), in order
    status,         \* "running", or "exit 1": the process ended with status 1
    main_exc,       \* exception that left run() uncaught, None otherwise
    nread,          \* number of tuples read_tuple() has returned
    nemit,          \* number of emit/emit_many calls made
    \* history (ghost) variables, read by no action guard
    arrived,        \* tuples appended to _batches, in append order
    calls,          \* process_batch invocations: [flush, key, tups]
    flushes,        \* per flush that found tuples: [mark, end]
    processed,      \* Bolt.run: tuples whose process() returned
    inflight,       \* tuples handed to the user code now running
    blamed,         \* tuples that were handed to the user code that raised
    emits,          \* per emit call: [first, n, call, exc, inflight]
    noop            \* the _batcher thread sleeps after a wake that found the
                    \* store empty

vars == << cls, AUTO_ANCHOR, AUTO_ACK, AUTO_FAIL, group_key, pc, bpc,
           _current_tups, alias, _batches, _batch_lock, exc_info, sigint, e,
           tup, todo, fail_i, out, status, main_exc, nread, nemit,
           arrived, calls, flushes, processed, inflight, blamed, emits,
           noop >>

config == << cls, AUTO_ANCHOR, AUTO_ACK, AUTO_FAIL, group_key >>
ghost == << arrived, calls, flushes, processed, inflight, blamed, emits >>

\* The empty defaultdict(list): a function with no keys.
EmptyStore == [k \in {} |-> <<>>]

\* Optional arguments: Python's None, or a value.
NoneV == [none |-> TRUE]
Some(x) == [none |-> FALSE, val |-> x]

\* ------------------------------------------------------------- transport
\* tup.id if isinstance(tup, Tuple) else tup
TupId(a) == IF a.type = "Tuple" THEN a.tup.id ELSE a.id

\* Bolt.ack: the message send_message() is given
ack(a) == [command |-> "ack", id |-> TupId(a)]

\* Bolt.fail: the message send_message() is given
fail(a) == [command |-> "fail", id |-> TupId(a)]

\* Component.raise_exception: the error report sent to the orchestrator
raise_exception(x) == [command |-> "error", exc |-> x]

\* Mutant of Anchors: omitted anchors default to _current_tups whatever
\* AUTO_ANCHOR says.
Anchors_AlwaysAuto(anchors) ==
    LET given == IF anchors = NoneV
                 THEN [i \in 1..Len(_current_tups) |-> AnchorTuple(_current_tups[i])]
                 ELSE anchors.val
    IN [i \in 1..Len(given) |-> TupId(given[i])]

\* The anchors of an emit: the default when omitted, each reduced to an id.
Anchors(anchors) ==
    LET given == IF anchors = NoneV
                 THEN IF AUTO_ANCHOR
                      THEN [i \in 1..Len(_current_tups) |-> AnchorTuple(_current_tups[i])]
                      ELSE <<>>
                 ELSE anchors.val
    IN [i \in 1..Len(given) |-> TupId(given[i])]

\* msg['stream'] / msg['task'] are set only when given
Routing(stream, direct_task) ==
    (IF stream = NoneV THEN <<>> ELSE ("stream" :> stream.val))
    @@ (IF direct_task = NoneV THEN <<>> ELSE ("task" :> direct_task.val))

\* What a call does: the exception it raises (None if it returns) and the
\* messages it wrote to the transport.
Raises(x) == [exc |-> x, msgs |-> <<>>]
Writes(m) == [exc |-> None, msgs |-> m]

\* Bolt.emit
emit(t, stream, anchors, direct_task) ==
    IF t.type # "list" THEN Raises("TypeError")
    ELSE Writes(<< [command |-> "emit", tuple |-> t, anchors |-> Anchors(anchors)]
                   @@ Routing(stream, direct_task) >>)

\* Bolt.emit_many: the messages are written as one block
emit_many(tuples, stream, anchors, direct_task) ==
    IF tuples.type # "list" THEN Raises("TypeError")
    ELSE Writes([i \in 1..Len(tuples.val) |->
                  [command |-> "emit", tuple |-> tuples.val[i],
                   anchors |-> Anchors(anchors)]
                  @@ Routing(stream, direct_task)])

\* The calls user code makes in this model.
ExplicitAnchors == << AnchorTuple(Tuple(7, "a")), AnchorId(9) >>
EmitCalls ==
    { [fn |-> "emit", arg |-> PyList(<<"x">>), stream |-> NoneV,
       anchors |-> NoneV, direct_task |-> NoneV],
      [fn |-> "emit", arg |-> PyList(<<"x">>), stream |-> Some("s"),
       anchors |-> Some(ExplicitAnchors), direct_task |-> Some(1)],
      [fn |-> "emit", arg |-> PyStr("x"), stream |-> NoneV,
       anchors |-> NoneV, direct_task |-> NoneV],
      [fn |-> "emit_many", arg |-> PyList(<<PyList(<<"x">>), PyList(<<"y">>)>>),
       stream |-> NoneV, anchors |-> NoneV, direct_task |-> NoneV],
      [fn |-> "emit_many", arg |-> PyList(<<PyList(<<"x">>), PyStr("y")>>),
       stream |-> NoneV, anchors |-> Some(ExplicitAnchors), direct_task |-> NoneV],
      [fn |-> "emit_many", arg |-> PyStr("x"), stream |-> NoneV,
       anchors |-> NoneV, direct_task |-> NoneV] }

Call(c) ==
    IF c.fn = "emit" THEN emit(c.arg, c.stream, c.anchors, c.direct_task)
    ELSE emit_many(c.arg, c.stream, c.anchors, c.direct_task)

\* ------------------------------------------------------------------ Init
\* Bolt: nothing but class attributes.  BatchingBolt.__init__: exc_info is
\* None, the store is an empty defaultdict, the lock is free and the
\* _batcher thread has been started.
Init ==
    /\ cls \in {"Bolt", "BatchingBolt"}
    /\ AUTO_ANCHOR \in BOOLEAN
    /\ AUTO_ACK \in BOOLEAN
    /\ AUTO_FAIL \in BOOLEAN
    /\ group_key \in (IF cls = "BatchingBolt" THEN GroupKeyFns ELSE {[v \in Values |-> None]})
    /\ pc = "read_handshake"
    /\ bpc = IF cls = "BatchingBolt" THEN "sleep" ELSE "none"
    /\ _current_tups = <<>>
    /\ alias = NoneV
    /\ _batches = EmptyStore
    /\ _batch_lock = "free"
    /\ exc_info = None
    /\ sigint = FALSE
    /\ e = [main |-> None, batcher |-> None]
    /\ tup = None
    /\ todo = {}
    /\ fail_i = 0
    /\ out = <<>>
    /\ status = "running"
    /\ main_exc = None
    /\ nread = 0
    /\ nemit = 0
    /\ arrived = <<>>
    /\ calls = <<>>
    /\ flushes = <<>>
    /\ processed = <<>>
    /\ inflight = <<>>
    /\ blamed = <<>>
    /\ emits = <<>>
    /\ noop = FALSE

\* ------------------------------------------------------ the main thread
Running == status = "running"

\* An exception leaves run() uncaught: traceback, exit status 1; the daemon
\* _batcher thread dies with the process.  pc keeps the place where the
\* main thread was.
Uncaught(x) ==
    /\ status' = "exit 1"
    /\ main_exc' = x
    /\ pc' = pc

\* read_handshake() returns (Bolt.run line 199, BatchingBolt.run line 319)
ReadHandshake ==
    /\ Running /\ pc = "read_handshake"
    /\ pc' = "initialize"
    /\ UNCHANGED << config, bpc, _current_tups, alias, _batches, _batch_lock,
                    exc_info, sigint, e, tup, todo, fail_i, out, status,
                    main_exc, nread, nemit, ghost, noop >>

\* initialize() returns
Initialize ==
    /\ Running /\ pc = "initialize"
    /\ pc' = "read"
    /\ UNCHANGED << config, bpc, _current_tups, alias, _batches, _batch_lock,
                    exc_info, sigint, e, tup, todo, fail_i, out, status,
                    main_exc, nread, nemit, ghost, noop >>

\* initialize() raises x: Bolt.run catches it (line 210), BatchingBolt.run
\* has no handler (lines 319-325).
InitializeRaise(x) ==
    /\ Running /\ pc = "initialize"
    /\ IF cls = "Bolt"
       THEN /\ pc' = "except"
            /\ e' = [e EXCEPT !.main = x]
            /\ UNCHANGED << status, main_exc >>
       ELSE /\ Uncaught(x)
            /\ UNCHANGED e
    /\ UNCHANGED << config, bpc, _current_tups, alias, _batches, _batch_lock,
                    exc_info, sigint, tup, todo, fail_i, out, nread, arrived,
                    calls, flushes, processed, inflight, blamed, noop >>

\* Bolt.run line 203: read_tuple() returns a tuple, which becomes the sole
\* in-flight unit, and process() is entered (line 204).
BoltReadTuple ==
    /\ Running /\ cls = "Bolt" /\ pc = "read"
    /\ nread + nemit < MaxEvents
    /\ \E v \in Values :
         /\ _current_tups' = << Tuple(nread + 1, v) >>
         /\ inflight' = << Tuple(nread + 1, v) >>
    /\ nread' = nread + 1
    /\ pc' = "process"
    /\ UNCHANGED << config, bpc, alias, _batches, _batch_lock, exc_info,
                    sigint, e, tup, todo, fail_i, out, status, main_exc,
                    nemit, arrived, calls, flushes, processed, blamed, emits,
                    noop >>

\* Bolt.run line 203: read_tuple() raises; the assignment does not happen.
BoltReadRaise ==
    /\ Running /\ cls = "Bolt" /\ pc = "read"
    /\ pc' = "except"
    /\ e' = [e EXCEPT !.main = "ReadError"]
    /\ UNCHANGED << config, bpc, _current_tups, alias, _batches, _batch_lock,
                    exc_info, sigint, tup, todo, fail_i, out, status,
                    main_exc, nread, nemit, ghost, noop >>

\* Mutant of BoltProcessReturn: the tuple is acked whatever AUTO_ACK says.
BoltProcessReturn_AlwaysAck ==
    /\ Running /\ cls = "Bolt" /\ pc = "process"
    /\ out' = Append(out, ack(AnchorTuple(_current_tups[1])))
    /\ _current_tups' = <<>>
    /\ processed' = processed \o inflight
    /\ inflight' = <<>>
    /\ pc' = "read"
    /\ UNCHANGED << config, bpc, alias, _batches, _batch_lock, exc_info,
                    sigint, e, tup, todo, fail_i, status, main_exc, nread,
                    nemit, arrived, calls, flushes, blamed, emits, noop >>

\* Mutant of BoltProcessReturn: _current_tups is not reset after the ack.
BoltProcessReturn_NoReset ==
    /\ Running /\ cls = "Bolt" /\ pc = "process"
    /\ out' = IF AUTO_ACK
              THEN Append(out, ack(AnchorTuple(_current_tups[1])))
              ELSE out
    /\ processed' = processed \o inflight
    /\ inflight' = <<>>
    /\ pc' = "read"
    /\ UNCHANGED << config, bpc, _current_tups, alias, _batches, _batch_lock,
                    exc_info, sigint, e, tup, todo, fail_i, status, main_exc,
                    nread, nemit, arrived, calls, flushes, blamed, emits,
                    noop >>

\* Bolt.run lines 204-209: process() returns, the tuple is auto-acked when
\* AUTO_ACK, and _current_tups is reset.
BoltProcessReturn ==
    /\ Running /\ cls = "Bolt" /\ pc = "process"
    /\ out' = IF AUTO_ACK
              THEN Append(out, ack(AnchorTuple(_current_tups[1])))
              ELSE out
    /\ _current_tups' = <<>>
    /\ processed' = processed \o inflight
    /\ inflight' = <<>>
    /\ pc' = "read"
    /\ UNCHANGED << config, bpc, alias, _batches, _batch_lock, exc_info,
                    sigint, e, tup, todo, fail_i, status, main_exc, nread,
                    nemit, arrived, calls, flushes, blamed, emits, noop >>

\* Bolt.run line 204: process() raises x.
BoltProcessRaise(x) ==
    /\ Running /\ cls = "Bolt" /\ pc = "process"
    /\ pc' = "except"
    /\ e' = [e EXCEPT !.main = x]
    /\ blamed' = inflight
    /\ inflight' = <<>>
    /\ UNCHANGED << config, bpc, _current_tups, alias, _batches, _batch_lock,
                    exc_info, sigint, tup, todo, fail_i, out, status,
                    main_exc, nread, arrived, calls, flushes,
                    processed, noop >>

\* The fail messages of an auto-fail loop over the list l.
Fails(l) == [i \in 1..Len(l) |-> fail(AnchorTuple(l[i]))]

\* Bolt.run lines 210-215, the handler: auto-fail, then
\* raise_exception(e, self._current_tups[0]) and sys.exit(1).  With
\* _current_tups empty the subscript raises IndexError inside the handler:
\* nothing is reported and IndexError leaves run() uncaught.
BoltExcept ==
    /\ Running /\ cls = "Bolt" /\ pc = "except"
    /\ LET fails == IF AUTO_FAIL /\ _current_tups # <<>>
                    THEN Fails(_current_tups) ELSE <<>>
       IN IF _current_tups = <<>>
          THEN /\ out' = out \o fails
               /\ Uncaught("IndexError")
          ELSE /\ out' = (out \o fails) \o << raise_exception(e.main) >>
               /\ status' = "exit 1"
               /\ main_exc' = None
               /\ pc' = pc
    /\ UNCHANGED << config, bpc, _current_tups, alias, _batches, _batch_lock,
                    exc_info, sigint, e, tup, todo, fail_i, nread, nemit,
                    ghost, noop >>

\* BatchingBolt.run line 322: read_tuple() returns; the main thread goes on
\* to group_key and to "with self._batch_lock".
BatchReadTuple ==
    /\ Running /\ cls = "BatchingBolt" /\ pc = "read"
    /\ nread + nemit < MaxEvents
    /\ \E v \in Values : tup' = Tuple(nread + 1, v)
    /\ nread' = nread + 1
    /\ pc' = "with_lock"
    /\ UNCHANGED << config, bpc, _current_tups, alias, _batches, _batch_lock,
                    exc_info, sigint, e, todo, fail_i, out, status, main_exc,
                    nemit, ghost, noop >>

\* BatchingBolt.run line 322: read_tuple() raises; run has no handler.
BatchReadRaise ==
    /\ Running /\ cls = "BatchingBolt" /\ pc = "read"
    /\ Uncaught("ReadError")
    /\ UNCHANGED << config, bpc, _current_tups, alias, _batches, _batch_lock,
                    exc_info, sigint, e, tup, todo, fail_i, out, nread,
                    nemit, ghost, noop >>

\* Mutant of StoreAppend: the list of the key is replaced, not appended to.
StoreAppend_Overwrite(store, k, t) ==
    [x \in DOMAIN store \cup {k} |-> IF x = k THEN << t >> ELSE store[x]]

\* self._batches[k].append(t): a defaultdict creates the list on first use.
StoreAppend(store, k, t) ==
    [x \in DOMAIN store \cup {k} |->
        IF x = k
        THEN Append(IF k \in DOMAIN store THEN store[k] ELSE <<>>, t)
        ELSE store[x]]

\* Mutant of BatchAppend: the append does not wait for the lock.
BatchAppend_NoLock ==
    /\ Running /\ cls = "BatchingBolt" /\ pc = "with_lock"
    /\ LET k == group_key[tup.values]
       IN /\ _batches' = StoreAppend(_batches, k, tup)
          /\ _current_tups' = IF alias = Some(k)
                              THEN Append(_current_tups, tup)
                              ELSE _current_tups
    /\ arrived' = Append(arrived, tup)
    /\ tup' = None
    /\ pc' = "read"
    /\ UNCHANGED << config, bpc, alias, _batch_lock, exc_info, sigint, e,
                    todo, fail_i, out, status, main_exc, nread, nemit,
                    calls, flushes, processed, inflight, blamed, emits, noop >>

\* BatchingBolt.run lines 323-325: group_key gives the key, the lock is
\* taken, the tuple is appended to the list of its key, the lock is
\* released.  The list may be the very object _current_tups refers to.
BatchAppend ==
    /\ Running /\ cls = "BatchingBolt" /\ pc = "with_lock"
    /\ _batch_lock = "free"
    /\ LET k == group_key[tup.values]
       IN /\ _batches' = StoreAppend(_batches, k, tup)
          /\ _current_tups' = IF alias = Some(k)
                              THEN Append(_current_tups, tup)
                              ELSE _current_tups
    /\ arrived' = Append(arrived, tup)
    /\ tup' = None
    /\ pc' = "read"
    /\ UNCHANGED << config, bpc, alias, _batch_lock, exc_info, sigint, e,
                    todo, fail_i, out, status, main_exc, nread, nemit,
                    calls, flushes, processed, inflight, blamed, emits, noop >>

\* _handle_worker_exception (lines 351-357), run in the main thread when
\* the SIGINT is delivered: reraise(*self.exc_info), which run() does not
\* catch.  With exc_info still None reraise(*None) is a TypeError.
_handle_worker_exception ==
    /\ Running /\ cls = "BatchingBolt" /\ sigint
    /\ sigint' = FALSE
    /\ Uncaught(IF exc_info = None THEN "TypeError" ELSE exc_info)
    /\ UNCHANGED << config, bpc, _current_tups, alias, _batches, _batch_lock,
                    exc_info, e, tup, todo, fail_i, out, nread, nemit,
                    ghost, noop >>

\* --------------------------------------------------- the _batcher thread
\* How the running flush ended: the last entry of flushes is updated.
FlushEnds(how) == [flushes EXCEPT ![Len(flushes)].end = how]

\* _batch_entry line 331: time.sleep(SECS_BETWEEN_BATCHES) returns.
Sleep ==
    /\ Running /\ bpc = "sleep"
    /\ bpc' = "with_lock"
    /\ noop' = FALSE
    /\ UNCHANGED << config, pc, _current_tups, alias, _batches, _batch_lock,
                    exc_info, sigint, e, tup, todo, fail_i, out, status,
                    main_exc, nread, nemit, ghost >>

\* Mutant of NoopFlush: a wake that finds the store empty resets
\* _current_tups.
NoopFlush_Reset ==
    /\ Running /\ bpc = "with_lock"
    /\ _batch_lock = "free"
    /\ DOMAIN _batches = {}
    /\ bpc' = "sleep"
    /\ noop' = TRUE
    /\ _current_tups' = <<>>
    /\ UNCHANGED << config, pc, alias, _batches, _batch_lock,
                    exc_info, sigint, e, tup, todo, fail_i, out, status,
                    main_exc, nread, nemit, ghost >>

\* Mutant of NoopFlush: a wake that finds the store empty writes a message
\* to the transport.
NoopFlush_Sync ==
    /\ Running /\ bpc = "with_lock"
    /\ _batch_lock = "free"
    /\ DOMAIN _batches = {}
    /\ bpc' = "sleep"
    /\ noop' = TRUE
    /\ out' = Append(out, [command |-> "sync"])
    /\ UNCHANGED << config, pc, _current_tups, alias, _batches, _batch_lock,
                    exc_info, sigint, e, tup, todo, fail_i, status,
                    main_exc, nread, nemit, ghost >>

\* _batch_entry lines 332-335: the lock is taken, the store is empty,
\* "continue" releases the lock and the thread sleeps again.
NoopFlush ==
    /\ Running /\ bpc = "with_lock"
    /\ _batch_lock = "free"
    /\ DOMAIN _batches = {}
    /\ bpc' = "sleep"
    /\ noop' = TRUE
    /\ UNCHANGED << config, pc, _current_tups, alias, _batches, _batch_lock,
                    exc_info, sigint, e, tup, todo, fail_i, out, status,
                    main_exc, nread, nemit, ghost >>

\* _batch_entry lines 332-336: the lock is taken, the store holds tuples,
\* iteritems(self._batches) starts.
BeginFlush ==
    /\ Running /\ bpc = "with_lock"
    /\ _batch_lock = "free"
    /\ DOMAIN _batches # {}
    /\ _batch_lock' = "batcher"
    /\ todo' = DOMAIN _batches
    /\ bpc' = "iter"
    /\ flushes' = Append(flushes, [mark |-> Len(arrived), end |-> "running"])
    /\ UNCHANGED << config, pc, _current_tups, alias, _batches, exc_info,
                    sigint, e, tup, fail_i, out, status, main_exc, nread,
                    nemit, arrived, calls, processed, inflight, blamed,
                    emits, noop >>

\* Mutant of NextBatch: the iteration stops after the first group.
NextBatch_OneGroup ==
    /\ Running /\ bpc = "iter"
    /\ \E key \in todo :
         /\ _current_tups' = _batches[key]
         /\ alias' = Some(key)
         /\ calls' = Append(calls, [flush |-> Len(flushes), key |-> key,
                                    tups |-> _batches[key]])
         /\ inflight' = _batches[key]
    /\ todo' = {}
    /\ bpc' = "process_batch"
    /\ UNCHANGED << config, pc, _batches, _batch_lock, exc_info, sigint, e,
                    tup, fail_i, out, status, main_exc, nread, nemit,
                    arrived, flushes, processed, blamed, emits, noop >>

\* _batch_entry lines 336-338: the iterator yields (key, batch) in whatever
\* order the dict has; _current_tups is bound to the list object batch and
\* process_batch(key, batch) is entered.
NextBatch ==
    /\ Running /\ bpc = "iter"
    /\ \E key \in todo :
         /\ _current_tups' = _batches[key]
         /\ alias' = Some(key)
         /\ todo' = todo \ {key}
         /\ calls' = Append(calls, [flush |-> Len(flushes), key |-> key,
                                    tups |-> _batches[key]])
         /\ inflight' = _batches[key]
    /\ bpc' = "process_batch"
    /\ UNCHANGED << config, pc, _batches, _batch_lock, exc_info, sigint, e,
                    tup, fail_i, out, status, main_exc, nread, nemit,
                    arrived, flushes, processed, blamed, emits, noop >>

\* The ack messages of the auto-ack loop over the list l.
Acks(l) == [i \in 1..Len(l) |-> ack(AnchorTuple(l[i]))]

\* Mutant of ProcessBatchReturn: only the first tuple of batch is acked.
ProcessBatchReturn_AckFirst ==
    /\ Running /\ bpc = "process_batch"
    /\ out' = IF AUTO_ACK
              THEN Append(out, ack(AnchorTuple(_batches[alias.val][1])))
              ELSE out
    /\ inflight' = <<>>
    /\ bpc' = "iter"
    /\ UNCHANGED << config, pc, _current_tups, alias, _batches, _batch_lock,
                    exc_info, sigint, e, tup, todo, fail_i, status, main_exc,
                    nread, nemit, arrived, calls, flushes, processed, blamed,
                    emits, noop >>

\* _batch_entry lines 338-341: process_batch returns; with AUTO_ACK every
\* tuple of batch is acked.
ProcessBatchReturn ==
    /\ Running /\ bpc = "process_batch"
    /\ out' = IF AUTO_ACK THEN out \o Acks(_batches[alias.val]) ELSE out
    /\ inflight' = <<>>
    /\ bpc' = "iter"
    /\ UNCHANGED << config, pc, _current_tups, alias, _batches, _batch_lock,
                    exc_info, sigint, e, tup, todo, fail_i, status, main_exc,
                    nread, nemit, arrived, calls, flushes, processed, blamed,
                    emits, noop >>

\* Mutant of ProcessBatchRaise: the lock is not released.
ProcessBatchRaise_KeepLock(x) ==
    /\ Running /\ bpc = "process_batch"
    /\ e' = [e EXCEPT !.batcher = x]
    /\ bpc' = "except"
    /\ blamed' = inflight
    /\ inflight' = <<>>
    /\ flushes' = FlushEnds("raised")
    /\ UNCHANGED << config, pc, _current_tups, alias, _batches, _batch_lock,
                    exc_info, sigint, tup, todo, fail_i, out, status,
                    main_exc, nread, arrived, calls, processed, noop >>

\* Mutant of ProcessBatchRaise: the group is acked although process_batch
\* raised.
ProcessBatchRaise_Acked(x) ==
    /\ Running /\ bpc = "process_batch"
    /\ out' = IF AUTO_ACK THEN out \o Acks(inflight) ELSE out
    /\ _batch_lock' = "free"
    /\ e' = [e EXCEPT !.batcher = x]
    /\ bpc' = "except"
    /\ blamed' = inflight
    /\ inflight' = <<>>
    /\ flushes' = FlushEnds("raised")
    /\ UNCHANGED << config, pc, _current_tups, alias, _batches, exc_info,
                    sigint, tup, todo, fail_i, status, main_exc, nread,
                    arrived, calls, processed, noop >>

\* _batch_entry line 338: process_batch raises x.  Leaving the with block
\* releases the lock before the handler of line 343 runs; the store is not
\* replaced.
ProcessBatchRaise(x) ==
    /\ Running /\ bpc = "process_batch"
    /\ _batch_lock' = "free"
    /\ e' = [e EXCEPT !.batcher = x]
    /\ bpc' = "except"
    /\ blamed' = inflight
    /\ inflight' = <<>>
    /\ flushes' = FlushEnds("raised")
    /\ UNCHANGED << config, pc, _current_tups, alias, _batches, exc_info,
                    sigint, tup, todo, fail_i, out, status, main_exc, nread,
                    arrived, calls, processed, noop >>

\* Mutant of EndFlush: the store is not replaced.
EndFlush_KeepStore ==
    /\ Running /\ bpc = "iter"
    /\ todo = {}
    /\ _batch_lock' = "free"
    /\ bpc' = "sleep"
    /\ flushes' = FlushEnds("completed")
    /\ UNCHANGED << config, pc, _current_tups, alias, _batches, exc_info,
                    sigint, e, tup, todo, fail_i, out, status, main_exc,
                    nread, nemit, arrived, calls, processed, inflight,
                    blamed, emits, noop >>

\* _batch_entry line 342 and the end of the with block: the iterator is
\* exhausted, the store is replaced by an empty one and the lock released.
\* The list _current_tups refers to is no longer in the store.
EndFlush ==
    /\ Running /\ bpc = "iter"
    /\ todo = {}
    /\ _batches' = EmptyStore
    /\ alias' = NoneV
    /\ _batch_lock' = "free"
    /\ bpc' = "sleep"
    /\ flushes' = FlushEnds("completed")
    /\ UNCHANGED << config, pc, _current_tups, exc_info, sigint, e, tup,
                    todo, fail_i, out, status, main_exc, nread, nemit,
                    arrived, calls, processed, inflight, blamed, emits, noop >>

\* _batch_entry line 344: raise_exception(e, self._current_tups)
ReportException ==
    /\ Running /\ bpc = "except"
    /\ out' = Append(out, raise_exception(e.batcher))
    /\ fail_i' = 1
    /\ bpc' = "fail"
    /\ UNCHANGED << config, pc, _current_tups, alias, _batches, _batch_lock,
                    exc_info, sigint, e, tup, todo, status, main_exc, nread,
                    nemit, ghost, noop >>

\* _batch_entry lines 345-347: one turn of the loop
\* "for tup in self._current_tups: self.fail(tup)"; a list iterator yields
\* whatever the list holds at its index when it is asked.
FailNext ==
    /\ Running /\ bpc = "fail"
    /\ AUTO_FAIL /\ fail_i <= Len(_current_tups)
    /\ out' = Append(out, fail(AnchorTuple(_current_tups[fail_i])))
    /\ fail_i' = fail_i + 1
    /\ UNCHANGED << config, pc, bpc, _current_tups, alias, _batches,
                    _batch_lock, exc_info, sigint, e, tup, todo, status,
                    main_exc, nread, nemit, ghost, noop >>

\* _batch_entry lines 345-347: AUTO_FAIL is off or the loop is exhausted.
FailDone ==
    /\ Running /\ bpc = "fail"
    /\ ~(AUTO_FAIL /\ fail_i <= Len(_current_tups))
    /\ bpc' = "exc_info"
    /\ UNCHANGED << config, pc, _current_tups, alias, _batches, _batch_lock,
                    exc_info, sigint, e, tup, todo, fail_i, out, status,
                    main_exc, nread, nemit, ghost, noop >>

\* _batch_entry line 348: self.exc_info = sys.exc_info()
RecordExcInfo ==
    /\ Running /\ bpc = "exc_info"
    /\ exc_info' = e.batcher
    /\ bpc' = "kill"
    /\ UNCHANGED << config, pc, _current_tups, alias, _batches, _batch_lock,
                    sigint, e, tup, todo, fail_i, out, status, main_exc,
                    nread, nemit, ghost, noop >>

\* Mutant of Kill: the thread function returns without sending the signal.
Kill_NoSignal ==
    /\ Running /\ bpc = "kill"
    /\ bpc' = "done"
    /\ UNCHANGED << config, pc, _current_tups, alias, _batches, _batch_lock,
                    exc_info, sigint, e, tup, todo, fail_i, out, status,
                    main_exc, nread, nemit, ghost, noop >>

\* _batch_entry line 349: os.kill(os.getpid(), signal.SIGINT); the thread
\* function returns.
Kill ==
    /\ Running /\ bpc = "kill"
    /\ sigint' = TRUE
    /\ bpc' = "done"
    /\ UNCHANGED << config, pc, _current_tups, alias, _batches, _batch_lock,
                    exc_info, e, tup, todo, fail_i, out, status, main_exc,
                    nread, nemit, ghost, noop >>

\* ------------------------------------------------------------- user code
\* User code (initialize, process or process_batch) is running.
InUserCode == pc \in {"initialize", "process"} \/ bpc = "process_batch"

\* User code calls emit or emit_many and the call returns.
UserEmit ==
    /\ Running /\ InUserCode
    /\ nread + nemit < MaxEvents
    /\ \E c \in EmitCalls :
         /\ Call(c).exc = None
         /\ out' = out \o Call(c).msgs
         /\ emits' = Append(emits, [first |-> Len(out) + 1,
                                    n |-> Len(Call(c).msgs),
                                    call |-> c,
                                    exc |-> None,
                                    inflight |-> inflight])
    /\ nemit' = nemit + 1
    /\ UNCHANGED << config, pc, bpc, _current_tups, alias, _batches,
                    _batch_lock, exc_info, sigint, e, tup, todo, fail_i,
                    status, main_exc, nread, arrived, calls, flushes,
                    processed, inflight, blamed, noop >>

\* The user code running raises x (and does not catch it).
Raise(x) ==
    \/ InitializeRaise(x)
    \/ BoltProcessRaise(x)
    \/ ProcessBatchRaise(x)

\* User code calls emit or emit_many, the call raises and the user code
\* lets the exception through.
UserEmitRaise ==
    /\ nread + nemit < MaxEvents
    /\ \E c \in EmitCalls :
         /\ Call(c).exc # None
         /\ Raise(Call(c).exc)
         /\ emits' = Append(emits, [first |-> Len(out) + 1,
                                    n |-> Len(Call(c).msgs),
                                    call |-> c,
                                    exc |-> Call(c).exc,
                                    inflight |-> inflight])
    /\ nemit' = nemit + 1

\* User code raises an exception of its own.
UserRaise ==
    /\ Raise("UserError")
    /\ UNCHANGED << nemit, emits >>

\* ------------------------------------------------------------------ Next
Next ==
    \/ ReadHandshake
    \/ Initialize
    \/ BoltReadTuple
    \/ BoltReadRaise
    \/ BoltProcessReturn
    \/ BoltExcept
    \/ BatchReadTuple
    \/ BatchReadRaise
    \/ BatchAppend
    \/ _handle_worker_exception
    \/ Sleep
    \/ NoopFlush
    \/ BeginFlush
    \/ NextBatch
    \/ ProcessBatchReturn
    \/ EndFlush
    \/ ReportException
    \/ FailNext
    \/ FailDone
    \/ RecordExcInfo
    \/ Kill
    \/ UserEmit
    \/ UserEmitRaise
    \/ UserRaise

Spec == Init /\ [][Next]_vars

\* The scheduler runs a thread that can take a step: the handler of
\* _batch_entry runs to its end, and a delivered SIGINT is handled.  Nothing
\* is assumed of the surroundings (whether read_tuple() ever returns).
Fairness ==
    /\ WF_vars(ReportException)
    /\ WF_vars(FailNext)
    /\ WF_vars(FailDone)
    /\ WF_vars(RecordExcInfo)
    /\ WF_vars(Kill)
    /\ WF_vars(_handle_worker_exception)

FairSpec == Spec /\ Fairness

\* The _batcher thread is scheduled fairly and process_batch, once called,
\* comes back: the thread wakes from its sleep, gets the lock (run holds it
\* only for one append) and walks through the store.  Nothing is assumed of
\* the main thread.
FlushFairness ==
    /\ WF_vars(Sleep)
    /\ WF_vars(BeginFlush)
    /\ WF_vars(NextBatch)
    /\ WF_vars(ProcessBatchReturn)
    /\ WF_vars(EndFlush)

DrainSpec == Spec /\ FlushFairness

\* ---------------------------------------------------------------- claims
Batching == cls = "BatchingBolt"
Single == cls = "Bolt"

\* ids of a list of tuples
Ids(l) == [i \in 1..Len(l) |-> l[i].id]

\* the key group_key returns for tuple t
KeyOf(t) == group_key[t.values]

\* the tuples of list l whose key is k, in the order of l
OfKey(l, k) == LET Test(t) == KeyOf(t) = k IN SelectSeq(l, Test)

\* the messages of out with the given command, in order
Written(command) == LET Test(m) == m.command = command IN SelectSeq(out, Test)

\* C9: as long as no flush has found tuples, the store holds each tuple
\* read and appended so far exactly once, under the key group_key gives
\* it, per key in arrival order, and holds no key with an empty list.
C9_Grouping ==
    (Batching /\ flushes = <<>>) =>
        /\ Ids(arrived) = [i \in 1..Len(arrived) |-> i]
        /\ DOMAIN _batches = {KeyOf(arrived[i]) : i \in 1..Len(arrived)}
        /\ \A k \in DOMAIN _batches :
             /\ _batches[k] = OfKey(arrived, k)
             /\ _batches[k] # <<>>

C9_Witness ==
    /\ Batching /\ flushes = <<>>
    /\ Len(arrived) = 3
    /\ Cardinality(DOMAIN _batches) = 2

\* C8: no tuple is passed to process_batch in two different flushes.
C8_AtMostOneFlush ==
    \A i, j \in 1..Len(calls) :
        calls[i].flush # calls[j].flush =>
            \A m \in 1..Len(calls[i].tups), n \in 1..Len(calls[j].tups) :
                calls[i].tups[m].id # calls[j].tups[n].id

C8_Witness ==
    \E i, j \in 1..Len(calls) :
        /\ calls[i].flush # calls[j].flush
        /\ calls[i].key = calls[j].key
        /\ Len(arrived) = 3

\* C6: in Bolt.run the acks written are, in order, exactly one per tuple
\* whose process() has returned when AUTO_ACK is set, and none otherwise;
\* the tuple being processed and a tuple whose process() raised have no
\* ack, and each ack is on the transport before the next read.
C6_AutoAck ==
    Single =>
        /\ Written("ack") = IF AUTO_ACK
                            THEN [i \in 1..Len(processed) |->
                                    [command |-> "ack", id |-> processed[i].id]]
                            ELSE <<>>
        /\ \A i \in 1..Len(processed) :
             \A t \in {inflight[m] : m \in 1..Len(inflight)}
                      \cup {blamed[m] : m \in 1..Len(blamed)} :
                 processed[i].id # t.id
        /\ Len(processed) + Len(inflight) + Len(blamed) = nread

C6_Witness ==
    /\ Single /\ AUTO_ACK
    /\ Len(processed) = 2
    /\ blamed # <<>>
    /\ status = "exit 1"

C3_Reported ==
    (Single /\ status = "exit 1") =>
        /\ e.main # None
        /\ \E i \in 1..Len(out) : out[i] = [command |-> "error", exc |-> e.main]

\* C4: once the handler of _batch_entry is past its fail loop, the fail
\* messages written are exactly those of the group whose process_batch
\* raised when AUTO_FAIL is set and none otherwise, and exactly one error
\* report has been sent.
C4_FailOutcome ==
    (Batching /\ bpc \in {"exc_info", "kill", "done"}) =>
        /\ Written("fail") = IF AUTO_FAIL
                             THEN [i \in 1..Len(blamed) |->
                                     [command |-> "fail", id |-> blamed[i].id]]
                             ELSE <<>>
        /\ Len(Written("error")) = 1

\* --- flushes, as the history records them
Range(l) == {l[i] : i \in 1..Len(l)}

\* number of appends completed when flush f took the lock (0 for f = 0)
Mark(f) == IF f = 0 THEN 0 ELSE flushes[f].mark

\* the tuples whose append completed after the previous flush took the
\* lock and before flush f took it, in append order
Segment(f) == SubSeq(arrived, Mark(f - 1) + 1, Mark(f))

\* the tuples appended after the last flush took the lock
Since == SubSeq(arrived, Mark(Len(flushes)) + 1, Len(arrived))

\* the tuples passed to process_batch in flush f
PassedIn(f) == UNION {Range(calls[i].tups) : i \in {j \in 1..Len(calls) : calls[j].flush = f}}

\* the tuples the store holds
Stored == UNION {Range(_batches[k]) : k \in DOMAIN _batches}

C7_OncePerKey ==
    Batching =>
        /\ \A i \in 1..Len(calls) :
             /\ calls[i].tups = OfKey(Segment(calls[i].flush), calls[i].key)
             /\ calls[i].tups # <<>>
             /\ \A j \in 1..Len(calls) :
                  (calls[j].flush = calls[i].flush /\ calls[j].key = calls[i].key)
                      => j = i
        /\ \A f \in 1..Len(flushes) :
             flushes[f].end # "running" =>
                 \A t \in Range(Segment(f)) :
                     \E i \in 1..Len(calls) :
                         calls[i].flush = f /\ calls[i].key = KeyOf(t)

\* C7 (amended): as C7_OncePerKey, with "exactly once per key present"
\* for the flushes that ran to completion and "at most once per key" for
\* a flush that process_batch ended by raising.
C7_OncePerKeyCompleted ==
    Batching =>
        /\ \A i \in 1..Len(calls) :
             /\ calls[i].tups = OfKey(Segment(calls[i].flush), calls[i].key)
             /\ calls[i].tups # <<>>
             /\ \A j \in 1..Len(calls) :
                  (calls[j].flush = calls[i].flush /\ calls[j].key = calls[i].key)
                      => j = i
        /\ \A f \in 1..Len(flushes) :
             flushes[f].end = "completed" =>
                 \A t \in Range(Segment(f)) :
                     \E i \in 1..Len(calls) :
                         calls[i].flush = f /\ calls[i].key = KeyOf(t)

C7_Witness ==
    /\ Batching
    /\ Len(flushes) = 1
    /\ flushes[1].end = "completed"
    /\ Len(calls) = 2
    /\ \E i \in 1..2 : Len(calls[i].tups) = 2 /\ Ids(calls[i].tups) = << 1, 3 >>

\* the main thread of a BatchingBolt can take a step
MainThread == ReadHandshake \/ Initialize \/ BatchReadTuple \/ BatchAppend

\* C10 (as claimed): the main thread never waits at the lock, in
\* particular not while process_batch runs.
C10_BlocksOnlyOnRead ==
    (Batching /\ Running) => ~(pc = "with_lock" /\ _batch_lock # "free")

\* C10 (amended): when the main thread cannot go on it is either in
\* read_tuple() or at "with self._batch_lock" while the _batcher thread
\* holds the lock within a flush (iterating, or in process_batch).
C10_BlocksOnReadOrFlush ==
    (Batching /\ Running /\ ~ENABLED MainThread) =>
        \/ pc = "read"
        \/ /\ pc = "with_lock"
           /\ _batch_lock = "batcher"
           /\ bpc \in {"iter", "process_batch"}

C10_Witness ==
    /\ Batching /\ Running
    /\ pc = "with_lock"
    /\ _batch_lock = "batcher"
    /\ bpc = "process_batch"
    /\ ~ENABLED MainThread

ProducerRaised ==
    /\ Batching /\ status = "exit 1"
    /\ ~(bpc = "done" /\ ~sigint)

\* C11: whenever an exception of initialize or of read_tuple has ended a
\* BatchingBolt, that exception was reported through raise_exception.
C11_ProducerReported ==
    ProducerRaised =>
        \E i \in 1..Len(out) : out[i] = [command |-> "error", exc |-> main_exc]

\* the argument of emit_many is a list of lists
SeqOfSeqs(arg) ==
    /\ arg.type = "list"
    /\ \A i \in 1..Len(arg.val) : arg.val[i].type = "list"

\* C12: every emit_many call whose argument is not a list of lists raised
\* TypeError and wrote nothing.
C12_EmitManyTypeError ==
    \A i \in 1..Len(emits) :
        (emits[i].call.fn = "emit_many" /\ ~SeqOfSeqs(emits[i].call.arg)) =>
            /\ emits[i].exc = "TypeError"
            /\ emits[i].n = 0

\* C13: a wake of the _batcher thread that finds the store empty calls
\* process_batch not at all, writes nothing to the transport, leaves the
\* store, _current_tups, the lock and exc_info as they were and sends no
\* signal; the thread then sleeps again.
C13_NoopFlush ==
    [][(Batching /\ bpc = "with_lock" /\ DOMAIN _batches = {} /\ bpc' # bpc)
          => /\ bpc' = "sleep"
             /\ UNCHANGED << out, calls, flushes, _batches, _current_tups,
                             _batch_lock, exc_info, sigint, inflight, pc,
                             status >>]_vars

C13_Witness ==
    /\ Batching /\ Running
    /\ noop /\ bpc = "sleep"
    /\ DOMAIN _batches = {}
    /\ _current_tups # <<>>
    /\ Len(flushes) = 1
    /\ Len(calls) = 2

\* C14: in Bolt.run _current_tups is empty while the loop is in
\* read_tuple() and when the handler runs for an exception of the read
\* step; at most one fail message is ever written, it names the tuple
\* whose process() raised and never a tuple whose process() returned, and
\* with AUTO_FAIL the handler has written it by the time the process ends.
C14_BlameAttribution ==
    Single =>
        /\ pc = "read" => _current_tups = <<>>
        /\ e.main = "ReadError" => _current_tups = <<>>
        /\ Len(Written("fail")) <= 1
        /\ \A m \in Range(Written("fail")) :
             /\ \E t \in Range(blamed) : m.id = t.id
             /\ \A t \in Range(processed) : m.id # t.id
        /\ (status = "exit 1" /\ AUTO_FAIL) => Written("fail") = Fails(blamed)
        /\ ~AUTO_FAIL => Written("fail") = <<>>

C14_Witness ==
    /\ Single /\ AUTO_FAIL
    /\ status = "exit 1"
    /\ Len(processed) = 2
    /\ Ids(blamed) = << 3 >>
    /\ Written("fail") = << [command |-> "fail", id |-> 3] >>

\* C15: _current_tups is the group handed to process_batch while that
\* call runs, and is empty whenever the _batcher thread is between
\* flushes: asleep, or awake and about to take the lock.
C15_ClearedOnSuccess ==
    Batching =>
        /\ bpc = "process_batch" => _current_tups = inflight
        /\ bpc \in {"sleep", "with_lock"} => _current_tups = <<>>

\* the number of process_batch calls that have returned: all but the one
\* still running or the one that raised
Returned ==
    Len(calls) - (IF inflight # <<>> \/ blamed # <<>> THEN 1 ELSE 0)

\* the acks of the first n process_batch calls, call after call, each
\* group in its own order
RECURSIVE AcksOf(_)
AcksOf(n) == IF n = 0 THEN <<>> ELSE AcksOf(n - 1) \o Acks(calls[n].tups)

\* C16: at every moment the acks on the transport are, with AUTO_ACK,
\* exactly those of the groups whose process_batch call has returned, in
\* call order and in group order, each tuple once, and none without
\* AUTO_ACK; so a group is acked in full before the next process_batch
\* call starts and before the lock is released, and no tuple is acked
\* while the call it was passed to still runs or after that call raised.
C16_BatchAutoAck ==
    Batching =>
        /\ Written("ack") = IF AUTO_ACK THEN AcksOf(Returned) ELSE <<>>
        /\ \A i, j \in 1..Len(Written("ack")) :
             Written("ack")[i].id = Written("ack")[j].id => i = j
        /\ \A m \in Range(Written("ack")), t \in Range(inflight) \cup Range(blamed) :
             m.id # t.id

C16_Witness ==
    /\ Batching /\ AUTO_ACK
    /\ Len(calls) = 2
    /\ calls[1].flush = calls[2].flush
    /\ bpc = "process_batch"
    /\ _batch_lock = "batcher"
    /\ Written("ack") = << [command |-> "ack", id |-> 1],
                           [command |-> "ack", id |-> 3] >>

\* C17: the handler of _batch_entry records the exception first, then
\* writes the fail messages, then the error report, then sends the signal:
\* every fail message is on the transport before the error report, and
\* exc_info is set while the fail messages and the report are written and
\* when the signal is sent.
C17_FailureOrdering ==
    Batching =>
        /\ \A i, j \in 1..Len(out) :
             (out[i].command = "fail" /\ out[j].command = "error") => i < j
        /\ bpc \in {"fail", "kill", "done"} => exc_info # None
        /\ sigint => exc_info # None

\* the tuple with id i has been appended to the store / has been passed to
\* process_batch
Appended(i) == \E t \in Range(arrived) : t.id = i
Passed(i) == \E n \in 1..Len(calls) : \E t \in Range(calls[n].tups) : t.id = i

\* no exception is raised: the process runs and _batch_entry has caught
\* nothing
NeverRaises == Running /\ e.batcher = None

\* C18: in a run in which nothing ever raises, every tuple appended to the
\* store is eventually passed to process_batch.
C18_EventualDraining ==
    ([]NeverRaises) =>
        [](\A i \in 1..MaxEvents : Appended(i) => <>Passed(i))

C18_Witness ==
    /\ Batching /\ NeverRaises
    /\ Len(flushes) = 2
    /\ flushes[2].end = "completed"
    /\ Len(arrived) = 3
    /\ \A i \in 1..3 : Passed(i)
    /\ pc = "read"

\* C19: as long as the main thread of a BatchingBolt is in read_handshake()
\* or in initialize(), the store is empty, process_batch has not been
\* called, the _batcher thread is asleep or at the lock, and the transport
\* holds nothing but what initialize() itself emitted.
C19_StartupOrdering ==
    (Batching /\ pc \in {"read_handshake", "initialize"}) =>
        /\ arrived = <<>> /\ DOMAIN _batches = {}
        /\ calls = <<>> /\ flushes = <<>>
        /\ bpc \in {"sleep", "with_lock"} /\ _batch_lock = "free"
        /\ _current_tups = <<>>
        /\ \A i \in 1..Len(out) : out[i].command = "emit"
        /\ \A i \in 1..Len(emits) : emits[i].inflight = <<>>
        /\ pc = "read_handshake" => out = <<>>

C19_Witness ==
    /\ Batching /\ Running
    /\ pc = "initialize"
    /\ noop /\ bpc = "sleep"
    /\ Len(out) = 3

\* the ids named by the messages of out with the given command
IdsWritten(command) ==
    [i \in 1..Len(Written(command)) |-> Written(command)[i].id]

\* the sequence l names no id twice
NoRepeat(l) == \A i, j \in 1..Len(l) : l[i] = l[j] => i = j

\* C20: in both classes no tuple id is named by an ack and by a fail the
\* engine wrote, and no id is named by two acks or by two fails.
C20_AckFailExclusive ==
    /\ Range(IdsWritten("ack")) \cap Range(IdsWritten("fail")) = {}
    /\ NoRepeat(IdsWritten("ack"))
    /\ NoRepeat(IdsWritten("fail"))

C20_Witness ==
    /\ Batching /\ AUTO_ACK /\ AUTO_FAIL
    /\ bpc = "done"
    /\ Len(calls) = 2
    /\ calls[1].flush = calls[2].flush
    /\ Len(IdsWritten("ack")) + Len(IdsWritten("fail")) = 3

====
